---- MODULE Spec2Model ----
(***************************************************************************)
(* Adaptive Irrigation: the soil-moisture ledger, the event listener, the  *)
(* daily ET run and the scheduling calculations of                         *)
(* custom_components/adaptive_irrigation.                                  *)
(*                                                                         *)
(* Units.  Millimetres are held in tenths (MmScale units per mm) so that   *)
(* crop coefficients in tenths and half-hour sprinkler runs stay exact;    *)
(* times are seconds.  Precipitation sensor values are whole millimetres.  *)
(***************************************************************************)
EXTENDS Integers, Sequences, FiniteSets, TLC

\* ------------------------------------------------------------------ bounds
NumZones == 2
MaxOps == 4

\* ------------------------------------------------------- program constants
MmScale == 10
KcScale == 10
TickSeconds == 3600 \div 2
min_runtime == 60
max_runtime == 3600
minimum_interval == 3600
MaxRainDiff == 200
PrecipLow == 0
PrecipHigh == 500
TempLow == -50
TempHigh == 60
HumLow == 0
HumHigh == 100
WindLow == 0
WindHigh == 200
SolarLow == 0
SolarHigh == 1500
PressureLow == 800
PressureHigh == 1100

NoTime == -1
\* a weather value that is None
NoValue == -99999

Zones == 1..NumZones

Min(S) == CHOOSE x \in S : \A y \in S : x <= y
Max2(a, b) == IF a >= b THEN a ELSE b
Min2(a, b) == IF a <= b THEN a ELSE b
Abs(x) == IF x < 0 THEN -x ELSE x

\* ------------------------------------------------------------ configuration
\* ZoneConfig as parse_config fills it: only precipitation_rate (mm/hour) and
\* crop_coefficient (tenths) come from the entry; the runtime limits keep the
\* class defaults.  The zone form accepts any precipitation_rate >= 0.
ZoneConfig ==
    { [precipitation_rate |-> 0,  crop_coefficient |-> 5],
      [precipitation_rate |-> 20, crop_coefficient |-> 5] }

\* ------------------------------------------------------------------- state
VARIABLES
    now,                  \* datetime.now(), seconds since setup
    day,                  \* calendar date of now
    config,               \* Config.zones : zone -> ZoneConfig
    zones,                \* State.zones  : zone -> ZoneState
    weather_precipitation,\* State.weather.precipitation
    hass_precip,          \* hass state of the precipitation entity
    hass_sprinkler,       \* hass state of each zone's sprinkler entity
    sinks,                \* number / runtime / next-runtime entity values
    ev,                   \* the event or call handled by the last step
    et_count,             \* zone -> window day -> number of ET subtractions
    expected,             \* zone -> start value plus the additions made since
    nops,                 \* handled events so far
    calc_in,              \* inputs of update_zone_calculations
    calculated,           \* zone_state.calculated
    evals,                \* evaluations completed so far (counted up to 2)
    weather,              \* State.weather : variable -> value or NoValue
    weather_sensors,      \* Config.weather_sensors : which optional entities are set
    et_method,            \* Config.et_method
    et0_sensor,           \* native value of the ReferenceETSensor entity
    et_run,               \* the daily run that is suspended at an await
    entry_data,           \* entry -> number of zones in the entry's data
    Config_zones,         \* Config.zones, the class attribute: zone id -> entry
                          \* whose parse_config stored the ZoneConfig
    loaded,               \* keys of CONFIGS, STATES and hass.data[DOMAIN]
    STATES,               \* entry -> State.zones : zone id -> balance
    numbers,              \* entry -> zone id -> state of the balance number
    entry_run,            \* a daily run of one of the entries, suspended
    restore,              \* the number platform's restore at setup
    can_run_is_on         \* ZoneCanRunBinarySensor._attr_is_on

weatherVars == << weather, weather_sensors, et_method >>
runVars == << et0_sensor, et_run >>
entryVars == << entry_data, Config_zones, loaded, STATES, numbers, entry_run >>
platformVars == << restore, can_run_is_on >>

vars == << now, day, config, zones, weather_precipitation, hass_precip,
           hass_sprinkler, sinks, ev, et_count, expected, nops,
           calc_in, calculated, weatherVars, evals, runVars, entryVars,
           platformVars >>

ledgerVars == << now, day, config, zones, weather_precipitation, hass_precip,
                 hass_sprinkler, sinks, ev, et_count, expected, nops >>

ZoneState ==
    [ soil_moisture_balance |-> 0,
      last_rainfall |-> 0,
      last_et |-> 0,
      last_et_calculation |-> NoTime,
      sprinkler_on_time |-> NoTime,
      sprinkler_off_time |-> NoTime,     \* read by calculations.py, set nowhere
      total_sprinkler_runtime_today |-> 0 ]

\* --------------------------------------------------------------- validators
is_valid_temperature(v) == TempLow <= v /\ v <= TempHigh
\* the humidity check with its lower bound left out
is_valid_humidity_upper_only(v) == v <= HumHigh
is_valid_humidity(v) == HumLow <= v /\ v <= HumHigh
is_valid_wind_speed(v) == WindLow <= v /\ v <= WindHigh
is_valid_solar_radiation(v) == SolarLow <= v /\ v <= SolarHigh
is_valid_pressure(v) == PressureLow <= v /\ v <= PressureHigh
is_valid_precipitation(v) == PrecipLow <= v /\ v <= PrecipHigh

\* validator names the is_valid_* function applied to a reading.
Validates(validator, v) ==
    IF validator = "is_valid_temperature" THEN is_valid_temperature(v)
    ELSE IF validator = "is_valid_humidity" THEN is_valid_humidity(v)
    ELSE IF validator = "is_valid_wind_speed" THEN is_valid_wind_speed(v)
    ELSE IF validator = "is_valid_solar_radiation" THEN is_valid_solar_radiation(v)
    ELSE IF validator = "is_valid_pressure" THEN is_valid_pressure(v)
    ELSE TRUE

\* ------------------------------------------------- weather configuration
\* The weather variables held in State.weather besides precipitation, the
\* validator the listener and initialise_state apply to each, and its range.
WeatherVariables ==
    { "temperature", "humidity", "wind_speed", "solar_radiation", "pressure" }
Validator ==
    [ temperature |-> "is_valid_temperature",
      humidity |-> "is_valid_humidity",
      wind_speed |-> "is_valid_wind_speed",
      solar_radiation |-> "is_valid_solar_radiation",
      pressure |-> "is_valid_pressure" ]
Low ==
    [ temperature |-> TempLow, humidity |-> HumLow, wind_speed |-> WindLow,
      solar_radiation |-> SolarLow, pressure |-> PressureLow ]
High ==
    [ temperature |-> TempHigh, humidity |-> HumHigh, wind_speed |-> WindHigh,
      solar_radiation |-> SolarHigh, pressure |-> PressureHigh ]

\* WeatherSensorConfig: the temperature and humidity entities are required,
\* the wind, solar and pressure entities are optional.
WeatherSensorConfig ==
    [ wind_speed : BOOLEAN, solar_radiation : BOOLEAN, pressure : BOOLEAN ]
NoOptionalSensors ==
    [ wind_speed |-> FALSE, solar_radiation |-> FALSE, pressure |-> FALSE ]
Configured(weather_config, variable) ==
    IF variable \in { "temperature", "humidity" } THEN TRUE
    ELSE weather_config[variable]

\* parse_config, the choice of the ET method from the configured entities
\* (the variant before it tests the solar entity first).
parse_config_solar_first(weather_config) ==
    IF weather_config.solar_radiation THEN "priestley_taylor"
    ELSE IF weather_config.wind_speed /\ weather_config.solar_radiation
    THEN "penman_monteith"
    ELSE "hargreaves"
parse_config(weather_config) ==
    IF weather_config.wind_speed /\ weather_config.solar_radiation
    THEN "penman_monteith"
    ELSE IF weather_config.solar_radiation THEN "priestley_taylor"
    ELSE "hargreaves"

\* ------------------------------------------------------------------- sinks
\* RequiredRuntimeSensor.update_from_balance divides by the zone's
\* precipitation rate without a guard: a rate of 0 with a deficit raises.
SinkRaises(c, bal) == bal < 0 /\ c.precipitation_rate = 0

update_from_balance(c, bal) ==
    IF bal >= 0 THEN 0
    ELSE (Abs(bal) * 3600) \div (c.precipitation_rate * MmScale)

\* NextRuntimeSensor.update_next_runtime with no can-run binary sensor
\* registered (PLATFORMS holds only NUMBER and SENSOR).
update_next_runtime(c, bal) ==
    IF bal >= 0 THEN 0
    ELSE Max2(min_runtime,
              Min2((Abs(bal) * 3600) \div (c.precipitation_rate * MmScale),
                   max_runtime))

\* update_zone_number -> number.update_value -> _update_runtime_sensor
update_zone_number(s, c, bal) ==
    IF SinkRaises(c, bal)
    THEN [s EXCEPT !.number = bal]
    ELSE [ number |-> bal,
           runtime |-> update_from_balance(c, bal),
           next_runtime |-> update_next_runtime(c, bal) ]

\* A loop over the zones in dict order that updates each zone and then its
\* sink stops at the first zone whose sink raises: that zone's update stays,
\* later zones are not reached.
FailingZones(newbal) == { z \in Zones : SinkRaises(config[z], newbal[z]) }
Reached(newbal) ==
    IF FailingZones(newbal) = {} THEN Zones
    ELSE { z \in Zones : z <= Min(FailingZones(newbal)) }

\* ------------------------------------------------------------ environment
\* hass state of the precipitation entity: unavailable/unknown, or a number.
PrecipValues == {0, 40, 240, 600}
PrecipStates ==
    { [st |-> "unavailable", v |-> 0] } \cup
    { [st |-> "ok", v |-> n] : n \in PrecipValues }
SprinklerStates == {"on", "off", "unavailable"}
\* values the balance number entity accepts from the user, tenths of mm
OverrideValues == { -100 * MmScale }
\* what the recorder returns for yesterday's window
TempHist == { << 70 >>, << 20, 70 >> }
HumHist == { << >>, << 50 >> }
\* what the pyet formula returns (tenths of mm), or that it raised
ET0Results == { [ok |-> FALSE, v |-> 0], [ok |-> TRUE, v |-> 20] }
ServiceTargets == { "this", "all", "other" }
\* One run's inputs: whether pyet imports, the recorder's temperature and
\* humidity states, the formula's result.  At most one of them is bad.
RunInputs ==
    { r \in [pyet_ok : BOOLEAN, temp : TempHist, hum : HumHist, et0 : ET0Results] :
        Cardinality({ b \in { <<1, ~r.pyet_ok>>, <<2, r.temp = << 70 >> >>,
                              <<3, r.hum = << >> >>, <<4, ~r.et0.ok>> } : b[2] }) <= 1 }
\* The runs requested through the service: the call is the timer's call, so
\* the bad inputs are left to the timer's runs.
ServiceInputs ==
    { r \in RunInputs : r.pyet_ok /\ r.et0.ok /\ r.temp # << 70 >> /\ r.hum # << >> }
\* Zone configurations of one entry: the first zone takes each
\* configuration, the zones after it the defaults of parse_config.
DefaultZone == [precipitation_rate |-> 10, crop_coefficient |-> 10]
Configs ==
    { [z \in Zones |-> IF z = 1 THEN c ELSE DefaultZone] : c \in ZoneConfig }

NoEvent ==
    [ kind |-> "none", zone |-> 0, old |-> 0, new |-> 0, was |-> "", is |-> "",
      raised |-> FALSE, outcome |-> "", et_mm |-> 0, window |-> 0,
      temp |-> << >>, hum |-> << >>, wind |-> << >>, solar |-> << >>,
      formula |-> "", after_downgrade |-> FALSE, store_reset |-> FALSE,
      entry |-> "", detached |-> FALSE, applied |-> {}, pushed |-> {} ]

\* No daily run is in flight.  A run in flight holds the window it computed
\* when it started and, for reference, the zone and precipitation state it
\* started from.
NoRun ==
    [ active |-> FALSE, window |-> 0,
      zones |-> [z \in Zones |-> ZoneState], weather_precipitation |-> 0 ]

\* The config entries and the zone ids zone_0, zone_1, ... that parse_config
\* and the platforms derive from the position of a zone in the entry's data.
EntryIds == { "a", "b" }
ZoneIds == 0..(NumZones - 1)
NoZones == [id \in ZoneIds |-> NoValue]
NoEntryRun == [ active |-> FALSE, entry |-> "", detached |-> FALSE, zones |-> NoZones ]
NoRestore == [ pending |-> {}, delayed |-> {}, last_state |-> NoValue ]

\* No entry is set up: CONFIGS, STATES and hass.data[DOMAIN] are empty and
\* Config.zones is the empty dict of the class body.
EntriesIdle ==
    /\ entry_data = [e \in EntryIds |-> 0]
    /\ Config_zones = [id \in ZoneIds |-> "none"]
    /\ loaded = {}
    /\ STATES = [e \in EntryIds |-> NoZones]
    /\ numbers = [e \in EntryIds |-> NoZones]
    /\ entry_run = NoEntryRun
\* The platforms have been set up and no can-run binary sensor is on.
PlatformIdle ==
    /\ restore = NoRestore
    /\ can_run_is_on = FALSE

\* zone_state.calculated before any evaluation; no handler of __init__.py
\* calls update_zone_calculations, so the ledger leaves it as it is.
Unset ==
    [ effective_deficit_mm |-> 0, required_runtime_seconds |-> 0,
      clamped_runtime_seconds |-> 0, forecast_rain_mm |-> 0,
      can_run |-> FALSE, reason |-> "" ]

\* hass state of a weather entity: unknown/unavailable, or a number that is
\* just below the range, on its lower bound, on its upper bound or just above.
Readings(variable) ==
    { [st |-> "unavailable", v |-> 0] } \cup
    { [st |-> "ok", v |-> n] :
        n \in { Low[variable] - 1, Low[variable], High[variable], High[variable] + 1 } }
\* The entities' states when the entry is set up: all unavailable, or all at
\* the same place of their ranges.
Unavailable == [variable \in WeatherVariables |-> [st |-> "unavailable", v |-> 0]]
InitialReadings ==
    { Unavailable } \cup
    { [variable \in WeatherVariables |->
          [st |-> "ok", v |-> IF at = "below" THEN Low[variable] - 1
                              ELSE IF at = "low" THEN Low[variable]
                              ELSE IF at = "high" THEN High[variable]
                              ELSE High[variable] + 1]] :
        at \in { "below", "low", "high", "above" } }

\* ------------------------------------------------------ initialise_state
\* The weather part: a configured entity's state is stored when it is a
\* number its validator accepts; the value stays None otherwise.
initialise_state(weather_config, readings) ==
    [variable \in WeatherVariables |->
        IF /\ Configured(weather_config, variable)
           /\ readings[variable].st = "ok"
           /\ Validates(Validator[variable], readings[variable].v)
        THEN readings[variable].v
        ELSE NoValue]

Init ==
    /\ now = 0
    /\ day = 1
    /\ config \in Configs
    /\ zones = [z \in Zones |-> ZoneState]
    /\ hass_precip = [st |-> "ok", v |-> 0]
    /\ weather_precipitation =
         IF hass_precip.st = "ok" /\ is_valid_precipitation(hass_precip.v)
         THEN hass_precip.v ELSE 0
    /\ hass_sprinkler \in { [z \in Zones |-> IF z = 1 THEN s ELSE "off"] :
                              s \in {"on", "off"} }
    /\ sinks = [z \in Zones |-> [number |-> 0, runtime |-> 0, next_runtime |-> 0]]
    /\ ev = NoEvent
    /\ et_count = [z \in Zones |-> [d \in 0..(MaxOps + 1) |-> 0]]
    /\ expected = [z \in Zones |-> 0]
    /\ nops = 0
    /\ calc_in = << >>
    /\ calculated = Unset
    /\ evals = 0
    /\ weather_sensors = NoOptionalSensors
    /\ et_method = parse_config(weather_sensors)
    /\ weather = initialise_state(weather_sensors, Unavailable)
    /\ et0_sensor = NoValue
    /\ et_run = NoRun
    /\ EntriesIdle
    /\ PlatformIdle

\* ------------------------------------------- state_change_listener, rain
\* Rainfall added to every zone, zone by zone, each followed by its sink.
add_rainfall(diff) ==
    LET newbal == [z \in Zones |-> zones[z].soil_moisture_balance + diff * MmScale]
        R == Reached(newbal)
    IN  /\ zones' = [z \in Zones |->
                       IF z \in R
                       THEN [zones[z] EXCEPT !.soil_moisture_balance = newbal[z],
                                             !.last_rainfall = diff * MmScale]
                       ELSE zones[z]]
        /\ sinks' = [z \in Zones |->
                       IF z \in R THEN update_zone_number(sinks[z], config[z], newbal[z])
                       ELSE sinks[z]]
        /\ expected' = [z \in Zones |-> expected[z] + diff * MmScale]

\* "if precip_diff > 0": only an increase is rain (the variant before it
\* also takes a decrease for one).
rain_detected_nonzero(precip_diff) == precip_diff # 0
rain_detected(precip_diff) == precip_diff > 0

\* "if precip_diff > 200.0": the sanity check on one event's increase (the
\* variant before it also rejects an increase of exactly 200).
excessive_rainfall_inclusive(precip_diff) == precip_diff >= MaxRainDiff
excessive_rainfall(precip_diff) == precip_diff > MaxRainDiff

PrecipitationEvent(new) ==
    LET old == hass_precip
        old_precip == IF old.st = "ok" THEN old.v ELSE 0
        precip_diff == new.v - old_precip
        \* float() of a state that is neither unknown/unavailable nor a
        \* number raises ValueError: the new state's, or the old state's
        \* once the new value has passed the range check
        malformed == \/ new.st = "invalid"
                     \/ /\ new.st = "ok"
                        /\ is_valid_precipitation(new.v)
                        /\ old.st = "invalid"
        accepted == /\ new.st = "ok"
                    /\ ~malformed
                    /\ is_valid_precipitation(new.v)
                    /\ rain_detected(precip_diff)
                    /\ ~excessive_rainfall(precip_diff)
        stored == /\ new.st = "ok"
                  /\ ~malformed
                  /\ is_valid_precipitation(new.v)
                  /\ ~(rain_detected(precip_diff) /\ excessive_rainfall(precip_diff))
        raises == \/ malformed
                  \/ accepted /\
                     FailingZones([z \in Zones |->
                      zones[z].soil_moisture_balance + precip_diff * MmScale]) # {}
    IN  /\ nops < MaxOps
        /\ nops' = nops + 1
        /\ hass_precip' = new
        /\ IF accepted
           THEN add_rainfall(precip_diff)
           ELSE UNCHANGED << zones, sinks, expected >>
        /\ weather_precipitation' =
             IF stored /\ ~raises THEN new.v ELSE weather_precipitation
        /\ ev' = [NoEvent EXCEPT !.kind = "precipitation",
                                 !.was = old.st, !.is = new.st,
                                 !.old = old_precip, !.new = new.v,
                                 !.raised = raises]
        /\ UNCHANGED << now, day, config, hass_sprinkler, et_count,
                        calc_in, calculated, weatherVars, evals, runVars,
                    entryVars, platformVars >>

\* -------------------------------------- state_change_listener, sprinkler
\* water added with the runtime taken in minutes instead of hours
water_added_per_minute(c, runtime_seconds) ==
    (c.precipitation_rate * runtime_seconds * MmScale) \div 60
water_added(c, runtime_seconds) ==
    (c.precipitation_rate * runtime_seconds * MmScale) \div 3600

\* "elif not is_on and was_on: if zone_state.sprinkler_on_time:" -- the
\* close is taken for an on -> not-on event of a zone whose sprinkler_on_time
\* is set (the variant before it takes it without that test).  new and old
\* are the event's states, "missing" standing for None: the listener returns
\* at once when new_state is None, and was_on is False when old_state is None.
sprinkler_turned_off_unmatched(new, old, sprinkler_on_time) ==
    new \notin { "on", "missing" } /\ old = "on"
sprinkler_turned_off(new, old, sprinkler_on_time) ==
    new \notin { "on", "missing" } /\ old = "on" /\ sprinkler_on_time # NoTime

SprinklerEvent(z, new) ==
    LET old == hass_sprinkler[z]
        is_on == new = "on"
        was_on == old = "on"
        zs == zones[z]
        turned_on == is_on /\ ~was_on
        turned_off == sprinkler_turned_off(new, old, zs.sprinkler_on_time)
        runtime_seconds == now - zs.sprinkler_on_time
        water == water_added(config[z], runtime_seconds)
        newbal == zs.soil_moisture_balance + water
        raises == turned_off /\ SinkRaises(config[z], newbal)
    IN  /\ nops < MaxOps
        /\ nops' = nops + 1
        /\ hass_sprinkler' = [hass_sprinkler EXCEPT ![z] = new]
        /\ zones' =
             IF turned_on
             THEN [zones EXCEPT ![z].sprinkler_on_time = now]
             ELSE IF turned_off
             THEN [zones EXCEPT
                     ![z].total_sprinkler_runtime_today = @ + runtime_seconds,
                     ![z].soil_moisture_balance = newbal,
                     ![z].sprinkler_on_time = IF raises THEN @ ELSE NoTime]
             ELSE zones
        /\ sinks' = IF turned_off
                    THEN [sinks EXCEPT ![z] = update_zone_number(@, config[z], newbal)]
                    ELSE sinks
        /\ expected' = IF turned_off
                       THEN [expected EXCEPT ![z] = @ + water]
                       ELSE expected
        /\ ev' = [NoEvent EXCEPT !.kind = "sprinkler", !.zone = z,
                                 !.was = old, !.is = new,
                                 !.old = zs.sprinkler_on_time,
                                 !.raised = raises]
        /\ UNCHANGED << now, day, config, weather_precipitation, hass_precip,
                        et_count, calc_in, calculated, weatherVars, evals, runVars,
                    entryVars, platformVars >>

\* ----------------------------- SoilMoistureBalanceNumber.async_set_native_value
ManualOverride(z, value) ==
    /\ nops < MaxOps
    /\ nops' = nops + 1
    /\ zones' = [zones EXCEPT ![z].soil_moisture_balance = value]
    /\ sinks' = [sinks EXCEPT ![z] = update_zone_number(@, config[z], value)]
    /\ expected' = [expected EXCEPT ![z] = value]
    /\ ev' = [NoEvent EXCEPT !.kind = "override", !.zone = z, !.new = value,
                             !.raised = SinkRaises(config[z], value)]
    /\ UNCHANGED << now, day, config, weather_precipitation, hass_precip,
                    hass_sprinkler, et_count, calc_in, calculated, weatherVars, evals, runVars,
                    entryVars, platformVars >>

\* ------------------------------------------------------------ wall clock
Advance ==
    /\ nops < MaxOps
    /\ nops' = nops + 1
    /\ now' = now + TickSeconds
    /\ ev' = [NoEvent EXCEPT !.kind = "advance"]
    /\ UNCHANGED << day, config, zones, weather_precipitation, hass_precip,
                    hass_sprinkler, sinks, et_count, expected,
                    calc_in, calculated, weatherVars, evals, runVars,
                    entryVars, platformVars >>

\* ------------------------------------------- get_historical_weather_data
\* The recorder's states for the window, kept when the validator accepts them.
get_historical_weather_data(states, validator) ==
    SelectSeq(states, LAMBDA v : Validates(validator, v))

\* ------------------------------------------------- calculate_and_apply_et
\* The awaits of the run only read the recorder; the zone loop that follows
\* them has no suspension point, so the run is one step.  window is the
\* calendar day whose readings are queried (the day before the current one).
\* the required-data check with the humidity test left out
apply_et_outcome_temp_only(pyet_ok, temp_data, humidity_data, et0) ==
    IF ~pyet_ok THEN "no_pyet"
    ELSE IF temp_data = << >> THEN "missing_data"
    ELSE IF ~et0.ok THEN "formula_error"
    ELSE "apply"
apply_et_outcome(pyet_ok, temp_data, humidity_data, et0) ==
    IF ~pyet_ok THEN "no_pyet"
    ELSE IF temp_data = << >> \/ humidity_data = << >> THEN "missing_data"
    ELSE IF ~et0.ok THEN "formula_error"
    ELSE "apply"

\* ET applied without the crop coefficient
et_actual_reference(et_mm, c) == et_mm
et_actual(et_mm, c) == (et_mm * c.crop_coefficient) \div KcScale

apply_daily_et(et_mm, window) ==
    LET newbal == [z \in Zones |->
                     zones[z].soil_moisture_balance - et_actual(et_mm, config[z])]
        R == Reached(newbal)
    IN  /\ zones' = [z \in Zones |->
                       IF z \in R
                       THEN [zones[z] EXCEPT
                               !.soil_moisture_balance = newbal[z],
                               !.last_et = et_actual(et_mm, config[z]),
                               !.last_et_calculation = now,
                               !.total_sprinkler_runtime_today = 0]
                       ELSE zones[z]]
        /\ sinks' = [z \in Zones |->
                       IF z \in R THEN update_zone_number(sinks[z], config[z], newbal[z])
                       ELSE sinks[z]]
        /\ expected' = [z \in Zones |-> IF z \in R THEN newbal[z] ELSE expected[z]]
        /\ et_count' = [z \in Zones |->
                          IF z \in R THEN [et_count[z] EXCEPT ![window] = @ + 1]
                          ELSE et_count[z]]

\* The method dispatch: the configured method's formula when the dataframe
\* holds the columns it needs, pyet.hargreaves otherwise (the variant before
\* it calls the configured method's formula whatever the columns are).
et0_formula_no_fallback(method, has_wind, has_rs) ==
    IF method = "penman_monteith" THEN "pm_fao56"
    ELSE IF method = "priestley_taylor" THEN "priestley_taylor"
    ELSE "hargreaves"
et0_formula(method, has_wind, has_rs) ==
    IF method = "penman_monteith"
    THEN IF has_wind /\ has_rs THEN "pm_fao56" ELSE "hargreaves"
    ELSE IF method = "priestley_taylor"
    THEN IF has_rs THEN "priestley_taylor" ELSE "hargreaves"
    ELSE "hargreaves"

\* wind_states and solar_states are what the recorder holds for the optional
\* entities; they are queried only when the entity is configured.  The
\* pressure column is added to the dataframe and handed to no formula.
calculate_and_apply_et(kind, window, pyet_ok, temp_states, humidity_states, et0, wind_states, solar_states) ==
    LET temp_data == get_historical_weather_data(temp_states, "is_valid_temperature")
        humidity_data == get_historical_weather_data(humidity_states, "is_valid_humidity")
        wind_data == IF weather_sensors.wind_speed
                     THEN get_historical_weather_data(wind_states, "is_valid_wind_speed")
                     ELSE << >>
        solar_data == IF weather_sensors.solar_radiation
                      THEN get_historical_weather_data(solar_states,
                                                       "is_valid_solar_radiation")
                      ELSE << >>
        formula == et0_formula(et_method, wind_data # << >>, solar_data # << >>)
        outcome == apply_et_outcome(pyet_ok, temp_data, humidity_data, et0)
        raises == outcome = "apply" /\
                  FailingZones([z \in Zones |->
                      zones[z].soil_moisture_balance - et_actual(et0.v, config[z])]) # {}
    IN  /\ IF outcome = "apply"
           THEN apply_daily_et(et0.v, window)
           ELSE UNCHANGED << zones, sinks, expected, et_count >>
        /\ ev' = [NoEvent EXCEPT
                    !.kind = kind,
                    !.window = window,
                    !.temp = temp_states,
                    !.hum = humidity_states,
                    !.wind = wind_states,
                    !.solar = solar_states,
                    !.formula = IF outcome \in { "apply", "formula_error" }
                                THEN formula ELSE "",
                    !.after_downgrade = /\ ev.formula = "hargreaves"
                                        /\ et_method # "hargreaves",
                    !.outcome = IF raises THEN "zone_error"
                                ELSE IF outcome = "apply" THEN "applied"
                                ELSE outcome,
                    !.et_mm = IF outcome = "apply" THEN et0.v ELSE 0,
                    \* the run reads the recorder, not State.weather, and
                    \* ends with the zone loop: reset_daily_readings is
                    \* called on no path
                    !.store_reset = FALSE,
                    !.raised = raises]

\* async_track_time_change(hour=0, minute=0, second=0): the date changes and
\* the run is made for the day that has just ended.
midnight_et_calculation(pyet_ok, temp_states, humidity_states, et0, wind_states, solar_states) ==
    /\ nops < MaxOps
    /\ nops' = nops + 1
    /\ day' = day + 1
    /\ calculate_and_apply_et("midnight", day, pyet_ok, temp_states,
                              humidity_states, et0, wind_states, solar_states)
    /\ UNCHANGED << now, config, weather_precipitation, hass_precip,
                    hass_sprinkler, calc_in, calculated, weatherVars, evals, runVars,
                    entryVars, platformVars >>

\* The calculate_et service: for this entry, for all entries, or for an
\* entry id that is not in CONFIGS (logged, nothing run).
handle_calculate_et(target, pyet_ok, temp_states, humidity_states, et0, wind_states, solar_states) ==
    /\ nops < MaxOps
    /\ nops' = nops + 1
    /\ IF target = "other"
       THEN /\ ev' = [NoEvent EXCEPT !.kind = "service", !.outcome = "not_found"]
            /\ UNCHANGED << zones, sinks, expected, et_count >>
       ELSE calculate_and_apply_et("service", day - 1, pyet_ok, temp_states,
                                   humidity_states, et0, wind_states, solar_states)
    /\ UNCHANGED << now, day, config, weather_precipitation, hass_precip,
                    hass_sprinkler, calc_in, calculated, weatherVars, evals, runVars,
                    entryVars, platformVars >>

\* ----------------------------------------------------------- calculations
\* What get_forecast_rain finds.  "no_attribute" is the Config that
\* parse_config builds: WeatherSensorConfig declares no forecast_rain_entity
\* and parse_config assigns none, whether or not the entry's form data names
\* a forecast entity.  The other states are those of a Config that carries
\* the attribute: no entity configured, an entity that is unknown or
\* unavailable, a text that float() rejects, or a number (tenths of mm).
ForecastStates ==
    { [st |-> "no_attribute", v |-> 0],
      [st |-> "none", v |-> 0], [st |-> "unavailable", v |-> 0],
      [st |-> "invalid", v |-> 0] } \cup
    { [st |-> "ok", v |-> n] : n \in { -30, 0, 60 } }

\* config.weather_sensors.forecast_rain_entity is read before anything else:
\* the read raises AttributeError when the object has no such attribute.
get_forecast_rain_raises(f) == f.st = "no_attribute"
get_forecast_rain(f) ==
    IF f.st = "ok" THEN Max2(0, f.v) ELSE 0

\* the deficit without the max(0.0, ...) around the difference
calculate_effective_deficit_unclamped(balance, forecast_rain) ==
    IF balance >= 0 THEN 0
    ELSE Abs(balance) - forecast_rain
calculate_effective_deficit(balance, forecast_rain) ==
    IF balance >= 0 THEN 0
    ELSE Max2(0, Abs(balance) - forecast_rain)

\* the runtime with the hours turned into minutes instead of seconds
calculate_runtime_minutes(deficit_mm, precipitation_rate) ==
    IF deficit_mm <= 0 \/ precipitation_rate <= 0 THEN 0
    ELSE (deficit_mm * 60) \div (precipitation_rate * MmScale)
calculate_runtime_seconds(deficit_mm, precipitation_rate) ==
    IF deficit_mm <= 0 \/ precipitation_rate <= 0 THEN 0
    ELSE (deficit_mm * 3600) \div (precipitation_rate * MmScale)

\* The order of the checks with the balance test moved in front of the
\* minimum-interval test.
evaluate_can_run_balance_first(balance, effective_deficit, required_runtime, zone_config, zone_state, t) ==
    IF balance >= 0
    THEN [can_run |-> FALSE, reason |-> "No moisture deficit"]
    ELSE IF /\ zone_state.sprinkler_off_time # NoTime
            /\ t - zone_state.sprinkler_off_time < zone_config.minimum_interval
    THEN [can_run |-> FALSE, reason |-> "Minimum interval not met"]
    ELSE IF effective_deficit <= 0
    THEN [can_run |-> FALSE, reason |-> "Forecasted rain covers deficit"]
    ELSE IF required_runtime < zone_config.min_runtime
    THEN [can_run |-> FALSE, reason |-> "Runtime too short"]
    ELSE [can_run |-> TRUE, reason |-> "Ready to run"]

\* The balance test made with > in place of >=.
evaluate_can_run_strict_balance(balance, effective_deficit, required_runtime, zone_config, zone_state, t) ==
    IF /\ zone_state.sprinkler_off_time # NoTime
       /\ t - zone_state.sprinkler_off_time < zone_config.minimum_interval
    THEN [can_run |-> FALSE, reason |-> "Minimum interval not met"]
    ELSE IF balance > 0
    THEN [can_run |-> FALSE, reason |-> "No moisture deficit"]
    ELSE IF effective_deficit <= 0
    THEN [can_run |-> FALSE, reason |-> "Forecasted rain covers deficit"]
    ELSE IF required_runtime < zone_config.min_runtime
    THEN [can_run |-> FALSE, reason |-> "Runtime too short"]
    ELSE [can_run |-> TRUE, reason |-> "Ready to run"]

evaluate_can_run(balance, effective_deficit, required_runtime, zone_config, zone_state, t) ==
    IF /\ zone_state.sprinkler_off_time # NoTime
       /\ t - zone_state.sprinkler_off_time < zone_config.minimum_interval
    THEN [can_run |-> FALSE, reason |-> "Minimum interval not met"]
    ELSE IF balance >= 0
    THEN [can_run |-> FALSE, reason |-> "No moisture deficit"]
    ELSE IF effective_deficit <= 0
    THEN [can_run |-> FALSE, reason |-> "Forecasted rain covers deficit"]
    ELSE IF required_runtime < zone_config.min_runtime
    THEN [can_run |-> FALSE, reason |-> "Runtime too short"]
    ELSE [can_run |-> TRUE, reason |-> "Ready to run"]

update_zone_calculations(in) ==
    LET balance == in.zone_state.soil_moisture_balance
        forecast_rain == get_forecast_rain(in.forecast)
        effective_deficit == calculate_effective_deficit(balance, forecast_rain)
        required_runtime ==
            calculate_runtime_seconds(effective_deficit,
                                      in.zone_config.precipitation_rate)
        clamped_runtime ==
            Max2(0, IF required_runtime > 0
                    THEN Max2(in.zone_config.min_runtime,
                              Min2(required_runtime, in.zone_config.max_runtime))
                    ELSE 0)
        verdict == evaluate_can_run(balance, effective_deficit, required_runtime,
                                    in.zone_config, in.zone_state, in.now)
    IN  [ effective_deficit_mm |-> effective_deficit,
          required_runtime_seconds |-> required_runtime,
          clamped_runtime_seconds |-> clamped_runtime,
          forecast_rain_mm |-> forecast_rain,
          can_run |-> verdict.can_run,
          reason |-> verdict.reason ]

\* The zone state the call leaves behind: update_zone_calculations assigns
\* to zone_state.calculated and to no other field of its argument (the
\* variant before it clears sprinkler_off_time once the interval test is made).
zone_state_after_interval_cleared(in) ==
    [in.zone_state EXCEPT !.sprinkler_off_time = NoTime]
zone_state_after(in) == in.zone_state

\* ZoneCanRunBinarySensor.update_can_run for a zone that is configured: the
\* division by precipitation_rate is made whenever the balance is negative.
update_can_run_raises(in) ==
    /\ in.zone_state.soil_moisture_balance < 0
    /\ in.zone_config.precipitation_rate = 0
update_can_run(in) ==
    LET balance == in.zone_state.soil_moisture_balance
        interval_met ==
            ~ /\ in.zone_state.sprinkler_off_time # NoTime
              /\ in.now - in.zone_state.sprinkler_off_time
                    < in.zone_config.minimum_interval
        runtime_seconds ==
            (Abs(balance) * 3600) \div (in.zone_config.precipitation_rate * MmScale)
    IN  IF balance < 0
        THEN interval_met /\ ~(runtime_seconds < in.zone_config.min_runtime)
        ELSE FALSE

\* Inputs of one evaluation: balances in tenths of mm, times in seconds.
\* The zone form bounds precipitation_rate, min_runtime, max_runtime and
\* minimum_interval by min=0 only and compares none of them with another.
EvalNow == 2 * 3600
CalcInputs ==
    [ zone_state :
        { [ZoneState EXCEPT !.soil_moisture_balance = b, !.sprinkler_off_time = t] :
            b \in { -200, -120, -50, -1, 0, 30 },
            t \in { NoTime, EvalNow - 1800, EvalNow - 3600 } },
      zone_config :
        [ precipitation_rate : { 0, 6, 10, 20 },
          min_runtime : { 60, 2400 },
          max_runtime : { 1800, 3600 },
          minimum_interval : { 0, 3600 } ],
      forecast : ForecastStates,
      now : { EvalNow } ]

EvalInit ==
    /\ now = EvalNow
    /\ day = 1
    /\ config = [z \in Zones |-> DefaultZone]
    /\ zones = [z \in Zones |-> ZoneState]
    /\ hass_precip = [st |-> "ok", v |-> 0]
    /\ weather_precipitation = 0
    /\ hass_sprinkler = [z \in Zones |-> "off"]
    /\ sinks = [z \in Zones |-> [number |-> 0, runtime |-> 0, next_runtime |-> 0]]
    /\ ev = NoEvent
    /\ et_count = [z \in Zones |-> [d \in 0..(MaxOps + 1) |-> 0]]
    /\ expected = [z \in Zones |-> 0]
    /\ nops = 0
    /\ calc_in \in CalcInputs
    /\ calculated = Unset
    /\ evals = 0
    /\ weather_sensors = NoOptionalSensors
    /\ et_method = parse_config(weather_sensors)
    /\ weather = initialise_state(weather_sensors, Unavailable)
    /\ et0_sensor = NoValue
    /\ et_run = NoRun
    /\ EntriesIdle
    /\ PlatformIdle

\* One call of update_zone_calculations.  The call starts with
\* get_forecast_rain; when that raises, nothing is assigned.
Evaluate ==
    /\ IF get_forecast_rain_raises(calc_in.forecast)
       THEN UNCHANGED << calculated, calc_in, evals >>
       ELSE /\ calculated' = update_zone_calculations(calc_in)
            /\ calc_in' = [calc_in EXCEPT !.zone_state = zone_state_after(calc_in)]
            /\ evals' = Min2(evals + 1, 2)
    /\ ev' = [NoEvent EXCEPT !.kind = "evaluate",
                             !.raised = get_forecast_rain_raises(calc_in.forecast)]
    /\ UNCHANGED << now, day, config, zones, weather_precipitation, hass_precip,
                    hass_sprinkler, sinks, et_count, expected, nops,
                    weatherVars, runVars, entryVars, platformVars >>

\* One periodic update of the can-run binary sensor of the same zone, at the
\* same time and with the same zone state and configuration.
UpdateCanRun ==
    /\ can_run_is_on' = IF update_can_run_raises(calc_in) THEN can_run_is_on
                        ELSE update_can_run(calc_in)
    /\ ev' = [NoEvent EXCEPT !.kind = "can_run",
                             !.raised = update_can_run_raises(calc_in)]
    /\ UNCHANGED << now, day, config, zones, weather_precipitation, hass_precip,
                    hass_sprinkler, sinks, et_count, expected, nops, calc_in,
                    calculated, evals, weatherVars, runVars, entryVars, restore >>

EvalNext == Evaluate \/ UpdateCanRun

EvalSpec == EvalInit /\ [][EvalNext]_vars

\* ------------------------------------------------------------------- Next
Next ==
    \/ \E new \in PrecipStates : PrecipitationEvent(new)
    \/ \E z \in Zones, new \in SprinklerStates : SprinklerEvent(z, new)
    \/ \E z \in Zones, value \in OverrideValues : ManualOverride(z, value)
    \/ Advance
    \/ \E r \in RunInputs :
          midnight_et_calculation(r.pyet_ok, r.temp, r.hum, r.et0, << >>, << >>)
    \/ \E target \in ServiceTargets, r \in ServiceInputs :
          handle_calculate_et(target, r.pyet_ok, r.temp, r.hum, r.et0, << >>, << >>)

Spec == Init /\ [][Next]_vars

\* --------------------------------------------- the listener's weather branches
\* A state change of the temperature, humidity, wind, solar or pressure
\* entity: the value is stored when it is a number its validator accepts.
\* Only configured entities are tracked.
WeatherEvent(variable, new) ==
    /\ nops < MaxOps
    /\ nops' = nops + 1
    /\ Configured(weather_sensors, variable)
    /\ weather' = IF new.st = "ok" /\ Validates(Validator[variable], new.v)
                  THEN [weather EXCEPT ![variable] = new.v]
                  ELSE weather
    /\ ev' = [NoEvent EXCEPT !.kind = variable, !.is = new.st, !.new = new.v,
                             !.old = weather[variable],
                             !.raised = (new.st = "invalid")]
    /\ UNCHANGED << now, day, config, zones, weather_precipitation, hass_precip,
                    hass_sprinkler, sinks, et_count, expected, calc_in,
                    calculated, evals, weather_sensors, et_method, runVars,
                    entryVars, platformVars >>

\* Precipitation readings around the bounds of the range, and the entity's
\* state at setup: 300 -> 500 is an increase of exactly MaxRainDiff that ends
\* on the upper bound.
WeatherPrecipStates ==
    { [st |-> "ok", v |-> n] :
        n \in { PrecipLow - 10, PrecipLow, PrecipHigh, PrecipHigh + 10 } }
InitialPrecipStates ==
    { [st |-> "ok", v |-> n] : n \in { PrecipHigh - MaxRainDiff, PrecipHigh + 10 } }
\* The optional entities an entry is set up with: none of them, or all.
AllOptionalSensors ==
    [ wind_speed |-> TRUE, solar_radiation |-> TRUE, pressure |-> TRUE ]

\* Setup of an entry with any choice of optional entities, the entities
\* being in any of the initial states, followed by weather events.
WeatherInit ==
    /\ now = 0
    /\ day = 1
    /\ config = [z \in Zones |-> DefaultZone]
    /\ zones = [z \in Zones |-> ZoneState]
    /\ hass_precip \in InitialPrecipStates
    /\ weather_precipitation =
         IF hass_precip.st = "ok" /\ is_valid_precipitation(hass_precip.v)
         THEN hass_precip.v ELSE 0
    /\ hass_sprinkler = [z \in Zones |-> "off"]
    /\ sinks = [z \in Zones |-> [number |-> 0, runtime |-> 0, next_runtime |-> 0]]
    /\ ev = NoEvent
    /\ et_count = [z \in Zones |-> [d \in 0..(MaxOps + 1) |-> 0]]
    /\ expected = [z \in Zones |-> 0]
    /\ nops = 0
    /\ calc_in = << >>
    /\ calculated = Unset
    /\ evals = 0
    /\ weather_sensors \in { NoOptionalSensors, AllOptionalSensors }
    /\ et_method = parse_config(weather_sensors)
    /\ \E readings \in InitialReadings :
          weather = initialise_state(weather_sensors, readings)
    /\ et0_sensor = NoValue
    /\ et_run = NoRun
    /\ EntriesIdle
    /\ PlatformIdle

WeatherNext ==
    \/ \E variable \in WeatherVariables :
          \E new \in Readings(variable) : WeatherEvent(variable, new)
    \/ \E new \in WeatherPrecipStates : PrecipitationEvent(new)

WeatherSpec == WeatherInit /\ [][WeatherNext]_vars

\* The same entry with sensors that also report text that is not a number
\* (float() raises ValueError on it).
MalformedReadings(variable) ==
    { [st |-> "invalid", v |-> 0], [st |-> "unavailable", v |-> 0],
      [st |-> "ok", v |-> Low[variable]] }
MalformedPrecipStates ==
    { [st |-> "invalid", v |-> 0], [st |-> "ok", v |-> PrecipHigh - MaxRainDiff + 40] }

MalformedNext ==
    \/ \E variable \in WeatherVariables :
          \E new \in MalformedReadings(variable) : WeatherEvent(variable, new)
    \/ \E new \in MalformedPrecipStates : PrecipitationEvent(new)

MalformedSpec == WeatherInit /\ [][MalformedNext]_vars

\* ------------------------------------------------ the daily runs by method
\* what the recorder returns for the optional entities (km/h, W/m2)
WindHist == { << >>, << 250 >>, << 10 >> }
SolarHist == { << 1600 >>, << 500 >> }

EtInit ==
    /\ now = 0
    /\ day = 1
    /\ config \in Configs
    /\ zones = [z \in Zones |-> ZoneState]
    /\ hass_precip = [st |-> "ok", v |-> 0]
    /\ weather_precipitation = 0
    /\ hass_sprinkler = [z \in Zones |-> "off"]
    /\ sinks = [z \in Zones |-> [number |-> 0, runtime |-> 0, next_runtime |-> 0]]
    /\ ev = NoEvent
    /\ et_count = [z \in Zones |-> [d \in 0..(MaxOps + 1) |-> 0]]
    /\ expected = [z \in Zones |-> 0]
    /\ nops = 0
    /\ calc_in = << >>
    /\ calculated = Unset
    /\ evals = 0
    /\ weather_sensors \in { ws \in WeatherSensorConfig : ~ws.pressure }
    /\ et_method = parse_config(weather_sensors)
    /\ weather = initialise_state(weather_sensors, Unavailable)
    /\ et0_sensor = NoValue
    /\ et_run = NoRun
    /\ EntriesIdle
    /\ PlatformIdle

EtNext ==
    \/ \E r \in RunInputs, w \in WindHist, rs \in SolarHist :
          midnight_et_calculation(r.pyet_ok, r.temp, r.hum, r.et0, w, rs)
    \/ \E target \in ServiceTargets, r \in ServiceInputs :
          handle_calculate_et(target, r.pyet_ok, r.temp, r.hum, r.et0,
                              << 10 >>, << 500 >>)

EtSpec == EtInit /\ [][EtNext]_vars

\* ------------------------------------------ the daily run and its awaits
\* calculate_and_apply_et is a coroutine: it computes its window and then
\* awaits the recorder once for each entity it queries.  While it is
\* suspended the event loop runs whatever else is due; the component holds
\* no lock and queues nothing.  begin_et_run is the run up to its first
\* await, finish_et_run the rest of it, from the recorder's answers to the
\* end of the zone loop.
begin_et_run ==
    /\ nops < MaxOps
    /\ ~et_run.active
    /\ nops' = nops + 1
    /\ day' = day + 1
    /\ et_run' = [ active |-> TRUE, window |-> day, zones |-> zones,
                   weather_precipitation |-> weather_precipitation ]
    /\ ev' = [NoEvent EXCEPT !.kind = "run_started", !.window = day]
    /\ UNCHANGED << now, config, zones, weather_precipitation, hass_precip,
                    hass_sprinkler, sinks, et_count, expected, calc_in,
                    calculated, weatherVars, evals, et0_sensor, entryVars,
                    platformVars >>

finish_et_run(temp_states, humidity_states, et0) ==
    /\ nops < MaxOps
    /\ et_run.active
    /\ nops' = nops + 1
    /\ calculate_and_apply_et("midnight", et_run.window, TRUE, temp_states,
                              humidity_states, et0, << >>, << >>)
    /\ et_run' = NoRun
    /\ UNCHANGED << now, day, config, weather_precipitation, hass_precip,
                    hass_sprinkler, calc_in, calculated, weatherVars, evals,
                    et0_sensor, entryVars, platformVars >>

\* the events that may arrive while a run is suspended
RolloverPrecipStates == { [st |-> "ok", v |-> n] : n \in { 0, 40 } }
RolloverSprinklerStates == { "on", "off" }

RolloverInit ==
    /\ now = 0
    /\ day = 1
    /\ config = [z \in Zones |-> DefaultZone]
    /\ zones = [z \in Zones |-> ZoneState]
    /\ hass_precip = [st |-> "ok", v |-> 0]
    /\ weather_precipitation = 0
    /\ hass_sprinkler = [z \in Zones |-> "off"]
    /\ sinks = [z \in Zones |-> [number |-> 0, runtime |-> 0, next_runtime |-> 0]]
    /\ ev = NoEvent
    /\ et_count = [z \in Zones |-> [d \in 0..(MaxOps + 1) |-> 0]]
    /\ expected = [z \in Zones |-> 0]
    /\ nops = 0
    /\ calc_in = << >>
    /\ calculated = Unset
    /\ evals = 0
    /\ weather_sensors = NoOptionalSensors
    /\ et_method = parse_config(weather_sensors)
    /\ weather = initialise_state(weather_sensors, Unavailable)
    /\ et0_sensor = NoValue
    /\ et_run = NoRun
    /\ EntriesIdle
    /\ PlatformIdle

RolloverNext ==
    \/ begin_et_run
    \/ \E r \in RunInputs : r.pyet_ok /\ finish_et_run(r.temp, r.hum, r.et0)
    \/ \E new \in RolloverPrecipStates : PrecipitationEvent(new)
    \/ \E z \in Zones, new \in RolloverSprinklerStates : SprinklerEvent(z, new)
    \/ \E z \in Zones, value \in OverrideValues : ManualOverride(z, value)
    \/ Advance

RolloverSpec == RolloverInit /\ [][RolloverNext]_vars

\* ------------------------------------------------- the sprinkler entities
\* The states a sprinkler entity's events carry: those of SprinklerStates,
\* and None when the entity is removed from the state machine (new_state)
\* or has just been added to it (old_state).
SprinklerObserved == SprinklerStates \cup { "missing" }

\* Setup of an entry while each sprinkler is on or off, followed by sprinkler
\* events and the passing of time.
SprinklerInit ==
    /\ now = 0
    /\ day = 1
    /\ config \in Configs
    /\ zones = [z \in Zones |-> ZoneState]
    /\ hass_precip = [st |-> "ok", v |-> 0]
    /\ weather_precipitation = 0
    /\ hass_sprinkler \in [Zones -> { "on", "off" }]
    /\ sinks = [z \in Zones |-> [number |-> 0, runtime |-> 0, next_runtime |-> 0]]
    /\ ev = NoEvent
    /\ et_count = [z \in Zones |-> [d \in 0..(MaxOps + 1) |-> 0]]
    /\ expected = [z \in Zones |-> 0]
    /\ nops = 0
    /\ calc_in = << >>
    /\ calculated = Unset
    /\ evals = 0
    /\ weather_sensors = NoOptionalSensors
    /\ et_method = parse_config(weather_sensors)
    /\ weather = initialise_state(weather_sensors, Unavailable)
    /\ et0_sensor = NoValue
    /\ et_run = NoRun
    /\ EntriesIdle
    /\ PlatformIdle

SprinklerNext ==
    \/ \E z \in Zones, new \in SprinklerObserved : SprinklerEvent(z, new)
    \/ Advance

SprinklerSpec == SprinklerInit /\ [][SprinklerNext]_vars

\* =================================================================== claims
Bal(z) == zones[z].soil_moisture_balance
IsRun(e) == e.kind \in {"midnight", "service"} /\ e.outcome # "not_found"

\* C1: with no ET run and no manual override in between, a zone's balance is
\* its starting value plus every accepted rainfall increase and every
\* precipitation_rate x duration addition of a matched on->off interval
\* (expected restarts from the balance at each ET application and override).
C1_PureAccumulation ==
    \A z \in Zones : Bal(z) = expected[z]

\* C2: the verdict is the first failing check in the order minimum interval,
\* balance >= 0, forecast covers the deficit, required runtime < min_runtime,
\* and can_run with "Ready to run" exactly when none fails; the checks are
\* stated on the inputs of the evaluation.
C2_IntervalBlocks ==
    /\ calc_in.zone_state.sprinkler_off_time # NoTime
    /\ calc_in.now - calc_in.zone_state.sprinkler_off_time
         < calc_in.zone_config.minimum_interval
C2_Forecast ==
    IF calc_in.forecast.st = "ok" /\ calc_in.forecast.v > 0
    THEN calc_in.forecast.v ELSE 0
C2_Deficit == -calc_in.zone_state.soil_moisture_balance - C2_Forecast
C2_RuntimeTooShort ==
    IF calc_in.zone_config.precipitation_rate <= 0
    THEN 0 < calc_in.zone_config.min_runtime
    ELSE C2_Deficit * 3600 <
         calc_in.zone_config.min_runtime
           * calc_in.zone_config.precipitation_rate * MmScale
C2_ExpectedReason ==
    IF C2_IntervalBlocks THEN "Minimum interval not met"
    ELSE IF calc_in.zone_state.soil_moisture_balance >= 0 THEN "No moisture deficit"
    ELSE IF C2_Deficit <= 0 THEN "Forecasted rain covers deficit"
    ELSE IF C2_RuntimeTooShort THEN "Runtime too short"
    ELSE "Ready to run"
C2_FirstFailingCheckWins ==
    calculated # Unset =>
        /\ calculated.reason = C2_ExpectedReason
        /\ calculated.can_run <=> (C2_ExpectedReason = "Ready to run")
C2_Witness ==
    /\ calculated.reason = "Minimum interval not met"
    /\ ~calculated.can_run
    /\ calc_in.zone_state.soil_moisture_balance = -200
    /\ calc_in.zone_state.sprinkler_off_time = calc_in.now - 1800
    /\ calc_in.zone_config.minimum_interval = 3600
    /\ calculated.required_runtime_seconds >= calc_in.zone_config.min_runtime

\* C3: after an off->on event the zone's sprinkler_on_time is stamped and its
\* sprinkler_off_time is cleared; after an on->off event sprinkler_off_time
\* is stamped with the turn-off time and sprinkler_on_time is cleared.
C3_TransitionStamps ==
    ev.kind = "sprinkler" =>
        /\ (ev.was = "off" /\ ev.is = "on") =>
              /\ zones[ev.zone].sprinkler_on_time = now
              /\ zones[ev.zone].sprinkler_off_time = NoTime
        /\ (ev.was = "on" /\ ev.is = "off") =>
              /\ zones[ev.zone].sprinkler_off_time = now
              /\ zones[ev.zone].sprinkler_on_time = NoTime

\* C4: an on->off event of a zone with a recorded sprinkler_on_time raises
\* that zone's balance by precipitation_rate x (off - on) / 3600 mm and its
\* total_sprinkler_runtime_today by off - on seconds, and leaves the balance
\* and runtime of every other zone as they were.
C4_IsClose ==
    /\ ev'.kind = "sprinkler"
    /\ ev'.was = "on"
    /\ ev'.is # "on"
    /\ zones[ev'.zone].sprinkler_on_time # NoTime
C4_Step ==
    C4_IsClose =>
        LET z == ev'.zone
            seconds == now' - zones[z].sprinkler_on_time
        IN  /\ (zones'[z].soil_moisture_balance - zones[z].soil_moisture_balance) * 3600
                 = config[z].precipitation_rate * seconds * MmScale
            /\ zones'[z].total_sprinkler_runtime_today
                 = zones[z].total_sprinkler_runtime_today + seconds
            /\ \A o \in Zones \ {z} :
                 /\ zones'[o].soil_moisture_balance = zones[o].soil_moisture_balance
                 /\ zones'[o].total_sprinkler_runtime_today
                      = zones[o].total_sprinkler_runtime_today
C4_IrrigationAddsRateTimesHours == [][C4_Step]_vars
C4_Witness ==
    /\ ev.kind = "sprinkler"
    /\ ev.was = "on"
    /\ ev.is = "off"
    /\ ev.old # NoTime
    /\ now - ev.old = TickSeconds
    /\ config[ev.zone].precipitation_rate = 20
    /\ zones[ev.zone].total_sprinkler_runtime_today = TickSeconds
    /\ Bal(ev.zone) = 10 * MmScale

\* C5: a daily ET run that completes subtracts et0 x crop_coefficient from
\* every zone's balance, sets last_et to that amount, stamps
\* last_et_calculation and zeroes total_sprinkler_runtime_today; and
\* total_sprinkler_runtime_today goes down in no step but an ET run.
C5_Step ==
    /\ (IsRun(ev') /\ ev'.outcome = "applied") =>
          \A z \in Zones :
             /\ (zones[z].soil_moisture_balance - zones'[z].soil_moisture_balance) * KcScale
                  = ev'.et_mm * config[z].crop_coefficient
             /\ zones'[z].last_et * KcScale = ev'.et_mm * config[z].crop_coefficient
             /\ zones'[z].last_et_calculation = now'
             /\ zones'[z].total_sprinkler_runtime_today = 0
    /\ \A z \in Zones :
          zones'[z].total_sprinkler_runtime_today < zones[z].total_sprinkler_runtime_today
             => IsRun(ev')
C5_DailyEtApplication == [][C5_Step]_vars
C5_Witness ==
    /\ IsRun(ev)
    /\ ev.outcome = "applied"
    /\ ev.et_mm = 20
    /\ config[1].crop_coefficient = 5
    /\ zones[1].last_et = 10
    /\ zones[2].last_et = 20
    /\ Bal(2) = 5 * MmScale - 20
    /\ zones[2].total_sprinkler_runtime_today = 0
    /\ zones[2].last_et_calculation = TickSeconds

\* C6: over any sequence of midnight ticks and calculate_et service calls,
\* the ET of one calendar day is subtracted from a zone's balance at most once.
C6_AtMostOncePerDay ==
    \A z \in Zones : \A d \in DOMAIN et_count[z] : et_count[z][d] <= 1

\* C7: a daily ET run whose window holds no valid temperature reading or no
\* valid humidity reading leaves every zone's soil_moisture_balance, last_et,
\* last_et_calculation and total_sprinkler_runtime_today as they were.
C7_NoValid(readings, lo, hi) ==
    \A i \in 1..Len(readings) : readings[i] < lo \/ readings[i] > hi
C7_Step ==
    (/\ IsRun(ev')
     /\ \/ C7_NoValid(ev'.temp, TempLow, TempHigh)
        \/ C7_NoValid(ev'.hum, HumLow, HumHigh))
    => \A z \in Zones :
          /\ zones'[z].soil_moisture_balance = zones[z].soil_moisture_balance
          /\ zones'[z].last_et = zones[z].last_et
          /\ zones'[z].last_et_calculation = zones[z].last_et_calculation
          /\ zones'[z].total_sprinkler_runtime_today
               = zones[z].total_sprinkler_runtime_today
C7_MissingDataChangesNothing == [][C7_Step]_vars
C7_Witness ==
    /\ IsRun(ev)
    /\ ev.outcome = "missing_data"
    /\ ev.hum = << >>
    /\ ev.temp = << 20, 70 >>
    /\ \E z \in Zones :
          /\ zones[z].total_sprinkler_runtime_today = TickSeconds
          /\ Bal(z) > 0
          /\ zones[z].last_et_calculation = NoTime

\* C8: a daily ET run is all-or-nothing across the zones of the entry: no
\* reachable state has a day's ET subtracted from some zones and not from
\* the others.
C8_AllOrNothing ==
    \A d \in 0..(MaxOps + 1) : \A z1, z2 \in Zones :
        et_count[z1][d] = et_count[z2][d]

\* C9: a precipitation event whose new value is not greater than the
\* previous value adds no rainfall: no zone's soil_moisture_balance or
\* last_rainfall changes.
C9_Step ==
    (/\ ev'.kind = "precipitation"
     /\ ev'.was = "ok"
     /\ ev'.is = "ok"
     /\ ev'.new <= ev'.old)
    => \A z \in Zones :
          /\ zones'[z].soil_moisture_balance = zones[z].soil_moisture_balance
          /\ zones'[z].last_rainfall = zones[z].last_rainfall
C9_DecreaseIsNotRain == [][C9_Step]_vars
C9_Witness ==
    /\ ev.kind = "precipitation"
    /\ ev.was = "ok"
    /\ ev.is = "ok"
    /\ ev.old = 40
    /\ ev.new = 0
    /\ weather_precipitation = 0
    /\ \A z \in Zones : Bal(z) = 40 * MmScale /\ zones[z].last_rainfall = 40 * MmScale

\* C10: a precipitation event whose increase over the previous value exceeds
\* 200 mm changes no zone's balance or last_rainfall and leaves the stored
\* precipitation value as it was; an increase of exactly 200 mm is added to
\* the zones and, when the handler completes, stored.
C10_Step ==
    (ev'.kind = "precipitation" /\ ev'.is = "ok"
       /\ ev'.new >= PrecipLow /\ ev'.new <= PrecipHigh)
    => /\ ev'.new - ev'.old > 200 =>
            /\ \A z \in Zones :
                 /\ zones'[z].soil_moisture_balance = zones[z].soil_moisture_balance
                 /\ zones'[z].last_rainfall = zones[z].last_rainfall
            /\ weather_precipitation' = weather_precipitation
       /\ ev'.new - ev'.old = 200 =>
            /\ zones'[1].soil_moisture_balance
                 = zones[1].soil_moisture_balance + 200 * MmScale
            /\ zones'[1].last_rainfall = 200 * MmScale
            /\ ~ev'.raised =>
                 /\ \A z \in Zones :
                      /\ zones'[z].soil_moisture_balance
                           = zones[z].soil_moisture_balance + 200 * MmScale
                      /\ zones'[z].last_rainfall = 200 * MmScale
                 /\ weather_precipitation' = ev'.new
C10_ExcessiveIncreaseRejected == [][C10_Step]_vars
C10_Witness ==
    /\ ev.kind = "precipitation"
    /\ ev.is = "ok"
    /\ ev.new = 240
    /\ ev.old = 0
    /\ hass_precip.v = 240
    /\ weather_precipitation = 0
    /\ \A z \in Zones : Bal(z) = 240 * MmScale /\ zones[z].last_rainfall = 200 * MmScale

\* C11: a reading outside its variable's range (temperature -50..60, humidity
\* 0..100, wind 0..200, solar 0..1500, pressure 800..1100, precipitation
\* 0..500) changes neither the stored value of the variable nor any zone
\* balance, at setup and in every event; a reading on a bound passes the
\* range check and is stored (a precipitation reading unless its increase is
\* over 200 mm); so every stored value is absent or within its range.
C11_InRange ==
    /\ \A variable \in WeatherVariables :
          \/ weather[variable] = NoValue
          \/ Low[variable] <= weather[variable] /\ weather[variable] <= High[variable]
    /\ PrecipLow <= weather_precipitation /\ weather_precipitation <= PrecipHigh
C11_Step ==
    /\ C11_InRange'
    /\ (ev'.kind \in WeatherVariables /\ ev'.is = "ok") =>
          /\ zones' = zones
          /\ weather_precipitation' = weather_precipitation
          /\ (ev'.new < Low[ev'.kind] \/ ev'.new > High[ev'.kind]) => weather' = weather
          /\ (ev'.new = Low[ev'.kind] \/ ev'.new = High[ev'.kind]) =>
                /\ weather'[ev'.kind] = ev'.new
                /\ \A other \in WeatherVariables \ {ev'.kind} :
                      weather'[other] = weather[other]
    /\ (ev'.kind = "precipitation" /\ ev'.is = "ok") =>
          /\ weather' = weather
          /\ (ev'.new < PrecipLow \/ ev'.new > PrecipHigh) =>
                /\ weather_precipitation' = weather_precipitation
                /\ zones' = zones
          /\ (/\ ev'.new = PrecipLow \/ ev'.new = PrecipHigh
              /\ ev'.new - ev'.old <= MaxRainDiff
              /\ ~ev'.raised) =>
                weather_precipitation' = ev'.new
C11_OutOfRangeDiscarded == C11_InRange /\ [][C11_Step]_vars
C11_Witness ==
    /\ ev.kind = "pressure"
    /\ ev.is = "ok"
    /\ ev.new = PressureHigh + 1
    /\ weather.pressure = PressureLow
    /\ weather.temperature = NoValue
    /\ weather_precipitation = PrecipHigh
    /\ \A z \in Zones : Bal(z) = MaxRainDiff * MmScale

\* C12: an evaluation with balance >= 0 (0 included) that the minimum
\* interval does not block reports can_run = FALSE, "No moisture deficit" and
\* effective_deficit_mm = 0, whatever the forecast rain is.
C12_NoDeficit ==
    (/\ evals >= 1
     /\ calc_in.zone_state.soil_moisture_balance >= 0
     /\ ~C2_IntervalBlocks)
    => /\ ~calculated.can_run
       /\ calculated.reason = "No moisture deficit"
       /\ calculated.effective_deficit_mm = 0
C12_Witness ==
    /\ evals >= 1
    /\ calc_in.zone_state.soil_moisture_balance = 0
    /\ calc_in.forecast = [st |-> "ok", v |-> 60]
    /\ calc_in.zone_state.sprinkler_off_time = EvalNow - 3600
    /\ calc_in.zone_config.minimum_interval = 3600
    /\ calculated.forecast_rain_mm = 60
    /\ calculated.reason = "No moisture deficit"
    /\ ~calculated.can_run

\* C13 as stated: for a negative balance effective_deficit_mm is
\* max(0, |balance| - forecast rain) and never negative, and when the forecast
\* is at least |balance| it is 0 and the verdict is can_run = FALSE with
\* "Forecasted rain covers deficit".
C13_Covered ==
    /\ calc_in.zone_state.soil_moisture_balance < 0
    /\ C2_Forecast >= -calc_in.zone_state.soil_moisture_balance
C13_Deficit ==
    /\ calculated.effective_deficit_mm >= 0
    /\ calc_in.zone_state.soil_moisture_balance < 0 =>
          calculated.effective_deficit_mm
            = (IF C2_Deficit > 0 THEN C2_Deficit ELSE 0)
    /\ C13_Covered => calculated.effective_deficit_mm = 0 /\ ~calculated.can_run
C13_ForecastCoversDeficit_AsStated ==
    evals >= 1 =>
        /\ C13_Deficit
        /\ C13_Covered => calculated.reason = "Forecasted rain covers deficit"
\* C13 amended: the same, the reason being "Forecasted rain covers deficit"
\* when the minimum interval is not blocking (a blocking interval is
\* reported first).
C13_ForecastCoversDeficit ==
    evals >= 1 =>
        /\ C13_Deficit
        /\ (C13_Covered /\ ~C2_IntervalBlocks) =>
              calculated.reason = "Forecasted rain covers deficit"
C13_Witness ==
    /\ evals >= 1
    /\ calc_in.zone_state.soil_moisture_balance = -50
    /\ calc_in.forecast = [st |-> "ok", v |-> 60]
    /\ calc_in.zone_state.sprinkler_off_time = NoTime
    /\ calculated.effective_deficit_mm = 0
    /\ calculated.reason = "Forecasted rain covers deficit"
    /\ ~calculated.can_run

\* C14 as stated, for a zone whose precipitation rate is positive: for a
\* positive effective deficit required_runtime_seconds is
\* effective_deficit / precipitation_rate x 3600; a required runtime below
\* min_runtime gives can_run = FALSE with "Runtime too short", and one equal
\* to min_runtime is runnable.
C14_Runtime ==
    (calculated.effective_deficit_mm > 0 /\ calc_in.zone_config.precipitation_rate > 0)
    => calculated.required_runtime_seconds
         * calc_in.zone_config.precipitation_rate * MmScale
       = calculated.effective_deficit_mm * 3600
C14_RuntimeAndMinimum_AsStated ==
    (/\ evals >= 1
     /\ calculated.effective_deficit_mm > 0
     /\ calc_in.zone_config.precipitation_rate > 0) =>
        /\ C14_Runtime
        /\ calculated.required_runtime_seconds < calc_in.zone_config.min_runtime
              => ~calculated.can_run /\ calculated.reason = "Runtime too short"
        /\ calculated.required_runtime_seconds = calc_in.zone_config.min_runtime
              => calculated.can_run
\* C14 amended: required_runtime_seconds is that quotient wherever the rate
\* is positive, and the verdicts are those of an evaluation that the minimum
\* interval does not block; a blocked one reports can_run = FALSE.
C14_RuntimeAndMinimum ==
    (evals >= 1 /\ calculated.effective_deficit_mm > 0) =>
        /\ C14_Runtime
        /\ C2_IntervalBlocks => ~calculated.can_run
        /\ ~C2_IntervalBlocks =>
              /\ calculated.required_runtime_seconds < calc_in.zone_config.min_runtime
                    => ~calculated.can_run /\ calculated.reason = "Runtime too short"
              /\ calculated.required_runtime_seconds = calc_in.zone_config.min_runtime
                    => calculated.can_run /\ calculated.reason = "Ready to run"
C14_Witness ==
    /\ evals >= 1
    /\ ~C2_IntervalBlocks
    /\ calc_in.zone_state.soil_moisture_balance = -1
    /\ calc_in.zone_config.precipitation_rate = 6
    /\ calc_in.zone_config.min_runtime = 60
    /\ calculated.effective_deficit_mm = 1
    /\ calculated.required_runtime_seconds = 60
    /\ calculated.can_run

\* C15: whenever required_runtime_seconds > 0, clamped_runtime_seconds lies
\* between the zone's min_runtime and max_runtime, for every zone
\* configuration the zone form accepts.
C15_ClampedWithinLimits ==
    (evals >= 1 /\ calculated.required_runtime_seconds > 0) =>
        /\ calculated.clamped_runtime_seconds >= calc_in.zone_config.min_runtime
        /\ calculated.clamped_runtime_seconds <= calc_in.zone_config.max_runtime

\* C16: whenever the snapshot's can_run is FALSE its
\* clamped_runtime_seconds is 0.
C16_ZeroWhenCannotRun ==
    (evals >= 1 /\ ~calculated.can_run) => calculated.clamped_runtime_seconds = 0

\* C17: an evaluation leaves the zone state it reads (balance, sprinkler
\* times, runtime of the day, last ET) and the zone configuration as they
\* were, and a further evaluation of the same balance, configuration,
\* forecast and time leaves the snapshot of the one before it.
C17_Step ==
    /\ calc_in'.zone_state = calc_in.zone_state
    /\ calc_in'.zone_config = calc_in.zone_config
    /\ evals >= 1 => calculated' = calculated
C18_Step ==
    ev'.kind = "override" =>
        LET z == ev'.zone
            value == ev'.new
            deficit == IF value < 0 THEN -value ELSE 0
        IN  /\ zones'[z].soil_moisture_balance = value
            /\ \A o \in Zones \ {z} : zones'[o] = zones[o] /\ sinks'[o] = sinks[o]
            /\ sinks'[z].number = value
            /\ ~ev'.raised
            /\ sinks'[z].runtime * config[z].precipitation_rate * MmScale
                 = deficit * 3600
            /\ sinks'[z].next_runtime
                 = (IF deficit = 0 THEN 0
                    ELSE Max2(min_runtime, Min2(sinks'[z].runtime, max_runtime)))
C18_OverrideIsAuthoritative == [][C18_Step]_vars

\* C19: the ET method is the one chosen from the configured entities when the
\* configuration is parsed (wind and solar: Penman-Monteith; solar without
\* wind: Priestley-Taylor; otherwise, wind without solar included:
\* Hargreaves), and no event or daily run changes it.
C19_Choice ==
    /\ (weather_sensors.wind_speed /\ weather_sensors.solar_radiation)
         => et_method = "penman_monteith"
    /\ (weather_sensors.solar_radiation /\ ~weather_sensors.wind_speed)
         => et_method = "priestley_taylor"
    /\ ~weather_sensors.solar_radiation => et_method = "hargreaves"
C19_MethodChosenOnce == C19_Choice /\ [][et_method' = et_method]_vars
C19_Witness ==
    /\ IsRun(ev)
    /\ ev.outcome = "applied"
    /\ ev.window = 2
    /\ ev.wind = << 10 >>
    /\ weather_sensors.wind_speed
    /\ ~weather_sensors.solar_radiation
    /\ et_method = "hargreaves"

\* C20: a daily run whose configured method lacks a valid wind or solar
\* reading for the day computes ET0 with the Hargreaves formula and goes on
\* to apply it instead of stopping for missing data; the configured method
\* stays, and a run whose readings are valid uses the configured method's
\* formula, also on the day after a downgrade.
C20_HasValid(readings, lo, hi) ==
    \E i \in 1..Len(readings) : lo <= readings[i] /\ readings[i] <= hi
C20_MethodFormula ==
    IF et_method = "penman_monteith" THEN "pm_fao56"
    ELSE IF et_method = "priestley_taylor" THEN "priestley_taylor"
    ELSE "hargreaves"
C20_ExtrasValid(e) ==
    /\ et_method = "penman_monteith" => C20_HasValid(e.wind, WindLow, WindHigh)
    /\ et_method \in { "penman_monteith", "priestley_taylor" }
         => C20_HasValid(e.solar, SolarLow, SolarHigh)
C20_Step ==
    /\ et_method' = et_method
    /\ (/\ IsRun(ev')
        /\ ev'.outcome # "no_pyet"
        /\ C20_HasValid(ev'.temp, TempLow, TempHigh)
        /\ C20_HasValid(ev'.hum, HumLow, HumHigh)) =>
          /\ ev'.outcome \in { "applied", "zone_error", "formula_error" }
          /\ ev'.formula = (IF C20_ExtrasValid(ev') THEN C20_MethodFormula
                            ELSE "hargreaves")
          /\ ev'.outcome = "applied" =>
                \A z \in Zones :
                   et_count'[z][ev'.window] = et_count[z][ev'.window] + 1
C20_DowngradeForTheDayOnly == [][C20_Step]_vars
C20_Witness ==
    /\ ev.kind = "midnight"
    /\ ev.window = 2
    /\ ev.outcome = "applied"
    /\ ev.formula = "pm_fao56"
    /\ ev.after_downgrade
    /\ et_method = "penman_monteith"
    /\ \A z \in Zones : et_count[z][1] = 1 /\ et_count[z][2] = 1

\* C21: after a daily ET run that completes, the ReferenceETSensor
\* ("yesterday's reference ET0") holds the ET0 the run computed, before the
\* crop coefficient, and not its previous or initial value.
C21_Et0SinkHoldsComputedValue ==
    (IsRun(ev) /\ ev.outcome = "applied") => et0_sensor = ev.et_mm

\* C22: the forecast rain an evaluation uses is never negative; it is 0 when
\* no forecast entity is configured, when its state is missing, unknown or
\* unavailable or is not a number, and when the reported forecast is
\* negative; the evaluation completes in each of these cases.
C22_ForecastRainNeverNegative ==
    ev.kind = "evaluate" =>
        /\ ~ev.raised
        /\ calculated.forecast_rain_mm >= 0
        /\ calc_in.forecast.st # "ok" => calculated.forecast_rain_mm = 0
        /\ (calc_in.forecast.st = "ok" /\ calc_in.forecast.v < 0)
              => calculated.forecast_rain_mm = 0

\* C23: no zone configuration with precipitation_rate <= 0 is accepted when
\* the entry is configured, so no sink update (required runtime, next
\* runtime) is performed for a zone whose rate is zero or negative: the zone
\* of an override or of a matched sprinkler close, and the first zone of a
\* daily run that applies ET, have a positive rate.
C23_SinkUpdated(z) ==
    \/ ev.kind = "override" /\ ev.zone = z
    \/ ev.kind = "sprinkler" /\ ev.zone = z /\ ev.was = "on" /\ ev.is # "on"
          /\ ev.old # NoTime
    \/ IsRun(ev) /\ ev.outcome \in { "applied", "zone_error" } /\ z = 1
C23_PositiveRateOnly ==
    \A z \in Zones : C23_SinkUpdated(z) => config[z].precipitation_rate > 0

\* C24: in every reachable state no zone has both sprinkler_on_time and
\* sprinkler_off_time set, and a zone's sprinkler_on_time is set exactly
\* while its sprinkler is observed on.
C24_OpenIntervalMarker ==
    \A z \in Zones :
        /\ ~(zones[z].sprinkler_on_time # NoTime /\ zones[z].sprinkler_off_time # NoTime)
        /\ zones[z].sprinkler_on_time # NoTime <=> hass_sprinkler[z] = "on"

\* C25: a sprinkler event reporting "on" for a zone that is Active (its
\* sprinkler_on_time is set), or "off" for a zone that is Idle, leaves the
\* zone's sprinkler_on_time, balance and total_sprinkler_runtime_today as
\* they were, whatever the event's old state is.
C25_Step ==
    ev'.kind = "sprinkler" =>
        LET z == ev'.zone
        IN  (\/ ev'.is = "on" /\ zones[z].sprinkler_on_time # NoTime
             \/ ev'.is = "off" /\ zones[z].sprinkler_on_time = NoTime)
            => /\ zones'[z].sprinkler_on_time = zones[z].sprinkler_on_time
               /\ zones'[z].soil_moisture_balance = zones[z].soil_moisture_balance
               /\ zones'[z].total_sprinkler_runtime_today
                    = zones[z].total_sprinkler_runtime_today
C25_RepeatedStateIsNoOp == [][C25_Step]_vars

\* C26: an on -> off (or on -> unavailable) sprinkler event of a zone with
\* no recorded sprinkler_on_time changes no zone's balance or
\* total_sprinkler_runtime_today, updates no sink and raises nothing.
C26_Step ==
    (/\ ev'.kind = "sprinkler"
     /\ ev'.was = "on"
     /\ ev'.is \in { "off", "unavailable" }
     /\ zones[ev'.zone].sprinkler_on_time = NoTime)
    => /\ \A z \in Zones :
            /\ zones'[z].soil_moisture_balance = zones[z].soil_moisture_balance
            /\ zones'[z].total_sprinkler_runtime_today
                 = zones[z].total_sprinkler_runtime_today
            /\ zones'[z].sprinkler_on_time = zones[z].sprinkler_on_time
       /\ sinks' = sinks
       /\ ~ev'.raised
C26_UnmatchedCloseIsNoOp == [][C26_Step]_vars
C26_Witness ==
    /\ ev.kind = "sprinkler"
    /\ ev.zone = 2
    /\ ev.was = "on"
    /\ ev.is = "off"
    /\ ev.old = NoTime
    /\ now = 2 * TickSeconds
    /\ hass_sprinkler[2] = "off"
    /\ zones[2].sprinkler_on_time = NoTime
    /\ zones[2].total_sprinkler_runtime_today = 0
    /\ Bal(2) = 0

\* C27: a daily rollover obtains the day's readings, computes ET0, applies
\* ET to every zone and then resets the weather store's daily samples: a
\* run that has applied ET has reset the store, and the store is reset by
\* no other step.
C27_RolloverResetsStore ==
    /\ (IsRun(ev) /\ ev.outcome = "applied") => ev.store_reset
    /\ ev.store_reset => (IsRun(ev) /\ ev.outcome = "applied")

\* C28: sensor, sprinkler and manual-override events that arrive while a
\* daily run is in progress, suspended at a recorder query included, are not
\* applied to zone or weather state before the run has completed: as long
\* as the run is in flight the zone states and the stored precipitation are
\* those it started from.
C28_NoInterleaving ==
    et_run.active =>
        /\ zones = et_run.zones
        /\ weather_precipitation = et_run.weather_precipitation

\* C29: the evaluation is re-run for every zone without any event: once
\* half an hour has passed with no event handled, a zone whose deficit needs
\* at least min_runtime and whose minimum interval is not blocking has a
\* can_run verdict of TRUE (the re-evaluation period is one minute).
C29_Runnable(z) ==
    /\ config[z].precipitation_rate > 0
    /\ Bal(z) < 0
    /\ -Bal(z) * 3600 >= min_runtime * config[z].precipitation_rate * MmScale
    /\ \/ zones[z].sprinkler_off_time = NoTime
       \/ now - zones[z].sprinkler_off_time >= 3600
C29_PeriodicReevaluation ==
    ev.kind = "advance" =>
        \A z \in Zones : C29_Runnable(z) => calculated.can_run

\* C30: between events, each zone's balance number sink shows the zone's
\* stored soil_moisture_balance, and its runtime sinks are the ones computed
\* from that balance: the required runtime is deficit / precipitation_rate
\* x 3600 and the next runtime is that, clamped, or 0 without a deficit.
C30_Deficit(z) == IF Bal(z) < 0 THEN -Bal(z) ELSE 0
C30_SinksFollowBalance ==
    \A z \in Zones :
        /\ sinks[z].number = Bal(z)
        /\ sinks[z].runtime * config[z].precipitation_rate * MmScale
             = C30_Deficit(z) * 3600
        /\ sinks[z].next_runtime
             = (IF C30_Deficit(z) = 0 THEN 0
                ELSE Max2(min_runtime, Min2(sinks[z].runtime, max_runtime)))

\* ------------------------------------------------------- config entries
\* Several config entries in one Home Assistant.  CONFIGS and STATES hold a
\* Config and a State per entry; Config declares zones as a class attribute
\* and has no __init__, so every Config reads and writes the one dict.
World ==
    [ entry_data |-> entry_data, Config_zones |-> Config_zones, loaded |-> loaded,
      STATES |-> STATES, numbers |-> numbers, entry_run |-> entry_run ]
SetWorld(w) ==
    /\ entry_data' = w.entry_data
    /\ Config_zones' = w.Config_zones
    /\ loaded' = w.loaded
    /\ STATES' = w.STATES
    /\ numbers' = w.numbers
    /\ entry_run' = w.entry_run

\* ET of one daily run for a zone with the default crop coefficient.
EntryEt == 2 * MmScale

\* parse_config: config.zones[zone_id] = zone_config for the n zones of the
\* entry's data; nothing is removed from the dict.
parse_config_zones(zones_before, e, n) ==
    [id \in ZoneIds |-> IF id < n THEN e ELSE zones_before[id]]

\* async_setup_entry of entry e whose data lists n zones: parse_config,
\* initialise_state (a ZoneState with balance 0 for every key of
\* config.zones), then the number platform, which creates a number for each
\* zone of the entry's data and restores its last state into state.zones.
async_setup_entry(w, e, n) ==
    LET cz == parse_config_zones(w.Config_zones, e, n)
        restored(id) == IF w.numbers[e][id] = NoValue THEN 0 ELSE w.numbers[e][id]
    IN  [w EXCEPT
           !.entry_data[e] = n,
           !.Config_zones = cz,
           !.loaded = @ \cup {e},
           !.STATES[e] = [id \in ZoneIds |->
                            IF cz[id] = "none" THEN NoValue
                            ELSE IF id < n THEN restored(id) ELSE 0],
           !.numbers[e] = [id \in ZoneIds |->
                             IF id < n THEN restored(id) ELSE w.numbers[e][id]]]

\* async_unload_entry: the platforms are unloaded (the numbers' states stay
\* in the restore store), the listener and the timer are cancelled, and the
\* entry is popped from hass.data, CONFIGS and STATES.  A run of
\* calculate_and_apply_et that is suspended keeps the State it captured.
async_unload_entry(w, e) ==
    [w EXCEPT
       !.loaded = @ \ {e},
       !.STATES[e] = NoZones,
       !.entry_run = IF @.active /\ @.entry = e /\ ~@.detached
                     THEN [@ EXCEPT !.detached = TRUE, !.zones = w.STATES[e]]
                     ELSE @]

EntryInit ==
    /\ now = 0
    /\ day = 1
    /\ config = [z \in Zones |-> DefaultZone]
    /\ zones = [z \in Zones |-> ZoneState]
    /\ hass_precip = [st |-> "ok", v |-> 0]
    /\ weather_precipitation = 0
    /\ hass_sprinkler = [z \in Zones |-> "off"]
    /\ sinks = [z \in Zones |-> [number |-> 0, runtime |-> 0, next_runtime |-> 0]]
    /\ ev = NoEvent
    /\ et_count = [z \in Zones |-> [d \in 0..(MaxOps + 1) |-> 0]]
    /\ expected = [z \in Zones |-> 0]
    /\ nops = 0
    /\ calc_in = << >>
    /\ calculated = Unset
    /\ evals = 0
    /\ weather_sensors = NoOptionalSensors
    /\ et_method = parse_config(weather_sensors)
    /\ weather = initialise_state(weather_sensors, Unavailable)
    /\ et0_sensor = NoValue
    /\ et_run = NoRun
    /\ EntriesIdle
    /\ PlatformIdle

EntryStep(kind, e, w) ==
    /\ nops < MaxOps
    /\ nops' = nops + 1
    /\ SetWorld(w)
    /\ ev' = [NoEvent EXCEPT !.kind = kind, !.entry = e]
    /\ UNCHANGED << now, day, config, zones, weather_precipitation, hass_precip,
                    hass_sprinkler, sinks, et_count, expected, calc_in,
                    calculated, weatherVars, evals, runVars, platformVars >>

Setup(e, n) ==
    /\ e \notin loaded
    /\ EntryStep("setup", e, async_setup_entry(World, e, n))
Unload(e) ==
    /\ e \in loaded
    /\ EntryStep("unload", e, async_unload_entry(World, e))
\* async_reload_entry: hass.config_entries.async_reload unloads the entry
\* and sets it up again with its current data.
Reload(e, n) ==
    /\ e \in loaded
    /\ EntryStep("reload", e, async_setup_entry(async_unload_entry(World, e), e, n))

\* calculate_and_apply_et(entry_id) up to its first await: CONFIGS[entry_id]
\* and STATES[entry_id] are captured.  Only the timer or the service of a
\* loaded entry starts it.
begin_entry_run(e) ==
    /\ e \in loaded
    /\ ~entry_run.active
    /\ EntryStep("begin_entry_run", e,
                 [World EXCEPT !.entry_run = [NoEntryRun EXCEPT !.active = TRUE, !.entry = e]])

\* The zones of config.zones in dict order whose ZoneState the captured
\* State holds, up to the first one it does not hold (KeyError, caught by
\* the except clause around the loop).
zones_applied(state_zones) ==
    { id \in ZoneIds :
        \A k \in 0..id : Config_zones[k] # "none" /\ state_zones[k] # NoValue }
zone_lookup_fails(state_zones) ==
    \E id \in ZoneIds : Config_zones[id] # "none" /\ state_zones[id] = NoValue

\* The rest of the run, after the history queries have returned.
finish_entry_run ==
    LET e == entry_run.entry
        state_zones == IF entry_run.detached THEN entry_run.zones ELSE STATES[e]
        applied == zones_applied(state_zones)
        \* update_zone_number: the entry is in hass.data and has the number
        pushed == { id \in applied : e \in loaded /\ id < entry_data[e] }
        after == [id \in ZoneIds |->
                    IF id \in applied THEN state_zones[id] - EntryEt
                    ELSE state_zones[id]]
    IN  /\ entry_run.active
        /\ nops < MaxOps
        /\ nops' = nops + 1
        /\ STATES' = IF entry_run.detached THEN STATES
                     ELSE [STATES EXCEPT ![e] = after]
        /\ numbers' = [numbers EXCEPT ![e] =
                          [id \in ZoneIds |->
                             IF id \in pushed THEN after[id] ELSE numbers[e][id]]]
        /\ entry_run' = NoEntryRun
        /\ ev' = [NoEvent EXCEPT !.kind = "entry_run", !.entry = e,
                                 !.detached = entry_run.detached,
                                 !.applied = applied, !.pushed = pushed,
                                 !.raised = zone_lookup_fails(state_zones)]
        /\ UNCHANGED << now, day, config, zones, weather_precipitation,
                        hass_precip, hass_sprinkler, sinks, et_count, expected,
                        calc_in, calculated, weatherVars, evals, runVars,
                        platformVars, entry_data, Config_zones, loaded >>

EntryNext ==
    \/ \E e \in EntryIds : \E n \in 1..NumZones : Setup(e, n)
    \/ \E e \in EntryIds : Unload(e)
    \/ \E e \in EntryIds : \E n \in 1..NumZones : Reload(e, n)
    \/ \E e \in EntryIds : begin_entry_run(e)
    \/ finish_entry_run

EntrySpec == EntryInit /\ [][EntryNext]_vars

\* C31: a daily run that was waiting for its history queries when its entry
\* was unloaded changes no zone balance of any entry and no balance number
\* when the queries return.
C31_Step ==
    (ev'.kind = "entry_run" /\ ev'.detached)
        => (STATES' = STATES /\ numbers' = numbers)
C31_OutstandingQueryDropped == [][C31_Step]_vars

\* C32: a setup, reload or unload of one entry leaves the zone configuration
\* and the zone state of every other loaded entry as they were, and after a
\* setup or reload the entry's zone configuration holds exactly the zones of
\* the entry's own data.
C32_Step ==
    (ev'.kind \in { "setup", "reload", "unload" })
        => /\ \A other \in loaded \ { ev'.entry } :
                 Config_zones' = Config_zones /\ STATES'[other] = STATES[other]
           /\ (ev'.kind # "unload") =>
                 \A id \in ZoneIds :
                    Config_zones'[id] =
                       IF id < entry_data'[ev'.entry] THEN ev'.entry ELSE "none"
C32_EntriesIndependent == [][C32_Step]_vars

\* C38: for every loaded entry the zone ids of its configuration are the
\* zone ids of its state.
C38_ConfigAndStateZonesAgree ==
    \A e \in loaded :
        { id \in ZoneIds : Config_zones[id] # "none" }
            = { id \in ZoneIds : STATES[e][id] # NoValue }

\* ------------------------------------------- restore of the balance numbers
\* async_setup_entry subscribes the listener and then awaits the platforms;
\* each balance number restores its last state when it is added to hass.
\* What the restore store holds for the numbers: nothing, or a balance.
LastStates == { NoValue, -5 * MmScale, 0 }
RestorePrecipStates == { [st |-> "ok", v |-> n] : n \in { 0, 40 } }

RestoreInit ==
    /\ now = 0
    /\ day = 1
    /\ config = [z \in Zones |-> DefaultZone]
    /\ zones = [z \in Zones |-> ZoneState]
    /\ hass_precip = [st |-> "ok", v |-> 0]
    /\ weather_precipitation = 0
    /\ hass_sprinkler = [z \in Zones |-> "off"]
    /\ sinks = [z \in Zones |-> [number |-> 0, runtime |-> 0, next_runtime |-> 0]]
    /\ ev = NoEvent
    /\ et_count = [z \in Zones |-> [d \in 0..(MaxOps + 1) |-> 0]]
    /\ \E last \in LastStates :
          /\ restore = [ pending |-> Zones, delayed |-> {}, last_state |-> last ]
          /\ expected = [z \in Zones |-> IF last = NoValue THEN 0 ELSE last]
    /\ nops = 0
    /\ calc_in = << >>
    /\ calculated = Unset
    /\ evals = 0
    /\ weather_sensors = NoOptionalSensors
    /\ et_method = parse_config(weather_sensors)
    /\ weather = initialise_state(weather_sensors, Unavailable)
    /\ et0_sensor = NoValue
    /\ et_run = NoRun
    /\ EntriesIdle
    /\ can_run_is_on = FALSE

\* A precipitation event delivered while async_forward_entry_setups is
\* awaited: the listener runs on state.zones, and update_zone_number finds
\* no number entity to update.
EarlyPrecipitationEvent(new) ==
    LET old == hass_precip
        old_precip == IF old.st = "ok" THEN old.v ELSE 0
        precip_diff == new.v - old_precip
        accepted == /\ new.st = "ok"
                    /\ is_valid_precipitation(new.v)
                    /\ rain_detected(precip_diff)
                    /\ ~excessive_rainfall(precip_diff)
        stored == /\ new.st = "ok"
                  /\ is_valid_precipitation(new.v)
                  /\ ~(rain_detected(precip_diff) /\ excessive_rainfall(precip_diff))
    IN  /\ restore.pending = Zones
        /\ nops < MaxOps
        /\ nops' = nops + 1
        /\ hass_precip' = new
        /\ zones' = IF accepted
                    THEN [z \in Zones |->
                            [zones[z] EXCEPT
                               !.soil_moisture_balance = @ + precip_diff * MmScale,
                               !.last_rainfall = precip_diff * MmScale]]
                    ELSE zones
        /\ expected' = IF accepted
                       THEN [z \in Zones |-> expected[z] + precip_diff * MmScale]
                       ELSE expected
        /\ weather_precipitation' = IF stored THEN new.v ELSE weather_precipitation
        /\ ev' = [NoEvent EXCEPT !.kind = "early_precipitation",
                                 !.was = old.st, !.is = new.st,
                                 !.old = old_precip, !.new = new.v]
        /\ UNCHANGED << now, day, config, hass_sprinkler, sinks, et_count,
                        calc_in, calculated, weatherVars, evals, runVars,
                        entryVars, platformVars >>

\* The value async_added_to_hass restores: the last state, or 0.0 without one.
restored_value(z) ==
    IF restore.last_state = NoValue THEN 0 ELSE restore.last_state

\* SoilMoistureBalanceNumber.async_added_to_hass of one zone.
async_added_to_hass(z) ==
    /\ z \in restore.pending
    /\ zones' = [zones EXCEPT ![z].soil_moisture_balance = restored_value(z)]
    /\ sinks' = [sinks EXCEPT ![z].number = restored_value(z)]
    /\ restore' = [restore EXCEPT !.pending = @ \ {z}, !.delayed = @ \cup {z}]
    /\ ev' = [NoEvent EXCEPT !.kind = "restore", !.zone = z,
                             !.old = zones[z].soil_moisture_balance,
                             !.new = restored_value(z)]
    /\ UNCHANGED << now, day, config, weather_precipitation, hass_precip,
                    hass_sprinkler, et_count, expected, nops, calc_in, calculated,
                    weatherVars, evals, runVars, entryVars, can_run_is_on >>

\* The callback async_added_to_hass schedules one second later.
delayed_update(z) ==
    /\ z \in restore.delayed
    /\ sinks' = [sinks EXCEPT ![z] = update_zone_number(@, config[z], sinks[z].number)]
    /\ restore' = [restore EXCEPT !.delayed = @ \ {z}]
    /\ ev' = [NoEvent EXCEPT !.kind = "delayed_update", !.zone = z]
    /\ UNCHANGED << now, day, config, zones, weather_precipitation, hass_precip,
                    hass_sprinkler, et_count, expected, nops, calc_in, calculated,
                    weatherVars, evals, runVars, entryVars, can_run_is_on >>

RestoreNext ==
    \/ \E new \in RestorePrecipStates : EarlyPrecipitationEvent(new)
    \/ \E z \in Zones : async_added_to_hass(z)
    \/ \E z \in Zones : delayed_update(z)
    \/ \E new \in RestorePrecipStates :
          restore.pending = {} /\ PrecipitationEvent(new)

RestoreSpec == RestoreInit /\ [][RestoreNext]_vars

\* C35: once every balance number has restored, each zone's balance is the
\* persisted balance plus the rain of the events handled since the listener
\* was subscribed.
C35_NoChangeLostToRestore ==
    restore.pending = {} => \A z \in Zones : Bal(z) = expected[z]

\* -------------------------------------------------- the balance number's sinks
\* Values a user can type into the balance number (min -200 mm, max 200 mm,
\* step 0.1 mm), in tenths of mm.
NumberValues == { -1, -100 * MmScale, 5 * MmScale }

SinkInit ==
    /\ now = 0
    /\ day = 1
    /\ config = [z \in Zones |-> DefaultZone]
    /\ zones = [z \in Zones |-> ZoneState]
    /\ hass_precip = [st |-> "ok", v |-> 0]
    /\ weather_precipitation = 0
    /\ hass_sprinkler = [z \in Zones |-> "off"]
    /\ sinks = [z \in Zones |-> [number |-> 0, runtime |-> 0, next_runtime |-> 0]]
    /\ ev = NoEvent
    /\ et_count = [z \in Zones |-> [d \in 0..(MaxOps + 1) |-> 0]]
    /\ expected = [z \in Zones |-> 0]
    /\ nops = 0
    /\ calc_in = << >>
    /\ calculated = Unset
    /\ evals = 0
    /\ weather_sensors = NoOptionalSensors
    /\ et_method = parse_config(weather_sensors)
    /\ weather = initialise_state(weather_sensors, Unavailable)
    /\ et0_sensor = NoValue
    /\ et_run = NoRun
    /\ EntriesIdle
    /\ PlatformIdle

SinkNext ==
    \/ \E z \in Zones, value \in NumberValues : ManualOverride(z, value)
    \/ Advance

SinkSpec == SinkInit /\ [][SinkNext]_vars

\* C37: the next-runtime sink of every zone is 0 when the zone cannot run
\* (minimum interval not met, no deficit, or required runtime below
\* min_runtime) and the required runtime clamped to [min_runtime,
\* max_runtime] otherwise, with only the number and sensor platforms set up.
C37_Required(z) == calculate_runtime_seconds(Abs(Bal(z)), config[z].precipitation_rate)
C37_CannotRun(z) ==
    \/ /\ zones[z].sprinkler_off_time # NoTime
       /\ now - zones[z].sprinkler_off_time < minimum_interval
    \/ Bal(z) >= 0
    \/ C37_Required(z) < min_runtime
C37_NextRuntimeZeroWhenCannotRun ==
    \A z \in Zones :
        sinks[z].next_runtime =
            IF C37_CannotRun(z) THEN 0
            ELSE Max2(min_runtime, Min2(C37_Required(z), max_runtime))

\* C36: after an update of the can-run binary sensor, its value equals the
\* can_run that update_zone_calculations computed for the same zone state,
\* zone configuration, forecast and time.
C36_BinarySensorAgrees ==
    (ev.kind = "can_run" /\ ~ev.raised /\ calculated # Unset)
        => can_run_is_on = calculated.can_run

\* C34: a precipitation event whose reading equals the last accepted
\* precipitation reading (the sensor went through unknown/unavailable, or
\* had no old state, and reports the same cumulative value again) adds no
\* rainfall to any zone.
C34_Step ==
    (ev'.kind = "precipitation" /\ ev'.is = "ok" /\ ev'.new = weather_precipitation)
        => \A z \in Zones : zones'[z].soil_moisture_balance = zones[z].soil_moisture_balance
C34_SameReadingAddsNoRain == [][C34_Step]_vars

\* C33: an event whose new reading is not a number leaves the weather
\* values, the zone states and the sinks as they were, and no error leaves
\* the listener.
C33_Step ==
    (ev'.is = "invalid")
        => /\ ~ev'.raised
           /\ weather' = weather
           /\ weather_precipitation' = weather_precipitation
           /\ zones' = zones
           /\ sinks' = sinks
C33_MalformedReadingDiscarded == [][C33_Step]_vars
====
